---------------------------- MODULE Spec2Model ----------------------------
(***************************************************************************)
(* A state-machine model of voxellaneous-core's Renderer                   *)
(* (src/voxellaneous-core/src/lib.rs): the renderer's fields that the      *)
(* entry points resize, render and upload_scene read and write, and one    *)
(* action per entry point.  The API is driven by a single thread of        *)
(* control (every entry point takes &mut self), so each call is one        *)
(* atomic step; what a call did on the way is kept in the variable `call`. *)
(*                                                                         *)
(* Conventions.                                                            *)
(*  - f32 values are fixed-point tenths: 5 stands for 0.5, 1 for 0.1.      *)
(*  - A GPU buffer is modelled by its contents in queue order: what a      *)
(*    pass submitted after the write reads.                                *)
(*  - A texture view is modelled by the descriptor of its texture.         *)
(*  - A panic (expect, unwrap, an index out of bounds, wgpu's default      *)
(*    uncaptured-error handler) ends the call where it happens; what the   *)
(*    call wrote before stays written, what it built locally is dropped.   *)
(***************************************************************************)
EXTENDS Integers, Sequences, FiniteSets, TLC

VARIABLES
    pipelines,                \* the pipelines and bind-group layouts the Renderer holds
    surface_config,           \* Renderer.surface_config (width, height)
    depth_texture_view,       \* Renderer.depth_texture_view
    gbuffer_albedo,           \* Renderer.gbuffer_albedo
    gbuffer_normal,           \* Renderer.gbuffer_normal
    gbuffer_linear_z,         \* Renderer.gbuffer_linear_z
    static_uniform_buffer,    \* contents of Renderer.static_uniform_buffer
    per_frame_uniform_buffer, \* contents of Renderer.per_frame_uniform_buffer
    lighting_uniform_buffer,  \* contents of Renderer.lighting_uniform_buffer
    draw_call_array,          \* Renderer.draw_call_array
    call                      \* the last entry-point call: what it was given and did

vars == << pipelines, surface_config, depth_texture_view, gbuffer_albedo,
           gbuffer_normal, gbuffer_linear_z, static_uniform_buffer,
           per_frame_uniform_buffer, lighting_uniform_buffer,
           draw_call_array, call >>

targets == << surface_config, depth_texture_view, gbuffer_albedo,
              gbuffer_normal, gbuffer_linear_z >>

scene_state == << static_uniform_buffer, draw_call_array >>

frame_uniforms == << per_frame_uniform_buffer, lighting_uniform_buffer >>

-----------------------------------------------------------------------------
(* Bounds of the model. *)

\* Widths and heights range over 1..MaxDim.
MaxDim == 2

\* A scene holds at most MaxObjects objects.
MaxObjects == 3

\* present_target ranges over 0..MaxPresentTarget (0..4 are the named modes).
MaxPresentTarget == 5

-----------------------------------------------------------------------------
(* Program constants. *)

\* StaticUniforms.color_palette: [u32; 256]
PaletteSize == 256

\* PerFrameUniforms.vp_matrix: [f32; 16]
MatrixLen == 16

\* PerFrameUniforms.camera_position, LightingUniforms.light_dir: [f32; 3]
VectorLen == 3

\* CUBE_INDICES.len()
CubeIndexCount == 36

Dims == 1..MaxDim

RENDER_ATTACHMENT == "RENDER_ATTACHMENT"
TEXTURE_BINDING == "TEXTURE_BINDING"

-----------------------------------------------------------------------------
(* Target creation. *)

\* create_render_texture_view: a 2-D texture of the given size and format,
\* usable as a render attachment and as a sampled texture.
create_render_texture_view(width, height, format, label) ==
    [ label  |-> label,
      width  |-> width,
      height |-> height,
      format |-> format,
      usage  |-> {RENDER_ATTACHMENT, TEXTURE_BINDING} ]

\* create_depth_texture: sized from the surface configuration.
create_depth_texture(config) ==
    [ label  |-> "Depth Texture",
      width  |-> config.width,
      height |-> config.height,
      format |-> "Depth24PlusStencil8",
      usage  |-> {RENDER_ATTACHMENT} ]

-----------------------------------------------------------------------------
(* Renderer::new *)

\* lines 219-478: the pipelines and the bind-group layouts
\* Renderer::new creates, by the field that holds each.
created_pipelines ==
    { "render_pipeline", "quad_pipeline_uint", "quad_pipeline_float",
      "lighting_pipeline", "per_frame_bind_group_layout",
      "per_draw_bind_group_layout", "quad_layout_uint", "quad_layout_float",
      "lighting_layout" }

\* Renderer::new, after a successful initialization on a canvas whose width
\* and height are drawn from `sizes`.
InitOn(sizes) ==
    /\ pipelines = created_pipelines
    /\ \E w \in sizes, h \in sizes :
         /\ surface_config = [width |-> w, height |-> h]
         /\ depth_texture_view =
              create_depth_texture([width |-> w, height |-> h])
         /\ gbuffer_albedo =
              create_render_texture_view(w, h, "Rgba8Unorm", "GBuffer Albedo")
         /\ gbuffer_normal =
              create_render_texture_view(w, h, "Rgba8Unorm", "GBuffer Normal")
         /\ gbuffer_linear_z =
              create_render_texture_view(w, h, "R16Uint", "GBuffer LinearZ")
    /\ static_uniform_buffer = [i \in 1..PaletteSize |-> 0]
    /\ per_frame_uniform_buffer =
         [ vp_matrix       |-> [i \in 1..MatrixLen |-> 0],
           camera_position |-> [i \in 1..VectorLen |-> 0],
           padding         |-> 0 ]
    /\ lighting_uniform_buffer =
         [ light_dir |-> <<5, 5, 5>>, ambient |-> 1 ]
    /\ draw_call_array = <<>>
    /\ call = [op |-> "new", result |-> "ok"]

\* The fields before a Renderer exists: Renderer::new has not returned one.
no_view == [ label |-> "none", width |-> 0, height |-> 0, format |-> "none",
             usage |-> {} ]

NoRenderer ==
    /\ pipelines = {}
    /\ surface_config = [width |-> 0, height |-> 0]
    /\ depth_texture_view = no_view
    /\ gbuffer_albedo = no_view
    /\ gbuffer_normal = no_view
    /\ gbuffer_linear_z = no_view
    /\ static_uniform_buffer = <<>>
    /\ per_frame_uniform_buffer = <<>>
    /\ lighting_uniform_buffer = <<>>
    /\ draw_call_array = <<>>

\* What the host may answer during Renderer::new: the formats the surface
\* reports for the adapter (line 171).
FormatLists == { <<>>, <<"Bgra8Unorm">>, <<"Rgba8Unorm", "Bgra8Unorm">> }

\* lines 147-169: create_surface, request_adapter or request_device returns
\* Err; map_err(map_wgpu_err)? returns it to the caller.
NewError(stage) ==
    /\ NoRenderer
    /\ stage \in {"create_surface", "request_adapter", "request_device"}
    /\ call' = [ op |-> "new", result |-> "err", stage |-> stage ]
    /\ UNCHANGED << pipelines, targets, scene_state, frame_uniforms >>

\* lines 171-172: the surface reports no format; first() is None and unwrap
\* panics.
NewNoFormat(formats) ==
    /\ NoRenderer
    /\ formats = <<>>
    /\ call' = [ op |-> "new", result |-> "panic", stage |-> "surface_format" ]
    /\ UNCHANGED << pipelines, targets, scene_state, frame_uniforms >>

\* lines 140-507, every acquisition succeeding: the Renderer of InitOn.
New(canvas_width, canvas_height, formats) ==
    /\ NoRenderer
    /\ formats # <<>>
    /\ pipelines' = created_pipelines
    /\ surface_config' = [width |-> canvas_width, height |-> canvas_height]
    /\ depth_texture_view' = create_depth_texture(surface_config')
    /\ gbuffer_albedo' =
         create_render_texture_view(canvas_width, canvas_height,
                                    "Rgba8Unorm", "GBuffer Albedo")
    /\ gbuffer_normal' =
         create_render_texture_view(canvas_width, canvas_height,
                                    "Rgba8Unorm", "GBuffer Normal")
    /\ gbuffer_linear_z' =
         create_render_texture_view(canvas_width, canvas_height,
                                    "R16Uint", "GBuffer LinearZ")
    /\ static_uniform_buffer' = [i \in 1..PaletteSize |-> 0]
    /\ per_frame_uniform_buffer' =
         [ vp_matrix       |-> [i \in 1..MatrixLen |-> 0],
           camera_position |-> [i \in 1..VectorLen |-> 0],
           padding         |-> 0 ]
    /\ lighting_uniform_buffer' =
         [ light_dir |-> <<5, 5, 5>>, ambient |-> 1 ]
    /\ draw_call_array' = <<>>
    /\ call' = [ op |-> "new", result |-> "ok", stage |-> "done",
                 surface_format |-> Head(formats),
                 width |-> canvas_width, height |-> canvas_height ]

-----------------------------------------------------------------------------
(* resize *)

\* A resize that stored the new width alone.
resize_config_width_only(config, width, height) ==
    [config EXCEPT !.width = width]

\* lines 510-511: the new size is stored in the surface configuration
resize_config(config, width, height) ==
    [config EXCEPT !.width = width, !.height = height]

\* A depth target recreated from the configuration the renderer held when
\* the call started.
resize_depth_before_update(config) == create_depth_texture(surface_config)

\* line 515: the depth target is recreated from the updated configuration
resize_depth(config) == create_depth_texture(config)

\* A resize that dropped the draw-call records along with the targets.
Resize_dropping_scene(width, height) ==
    LET config == resize_config(surface_config, width, height) IN
    /\ surface_config' = config
    /\ depth_texture_view' = resize_depth(config)
    /\ gbuffer_albedo' =
         create_render_texture_view(width, height, "Rgba8Unorm", "GBuffer Albedo")
    /\ gbuffer_normal' =
         create_render_texture_view(width, height, "Rgba8Unorm", "GBuffer Normal")
    /\ gbuffer_linear_z' =
         create_render_texture_view(width, height, "R16Uint", "GBuffer LinearZ")
    /\ draw_call_array' = <<>>
    /\ call' = [ op     |-> "resize",
                 width  |-> width,
                 height |-> height,
                 again  |-> /\ call.op = "resize"
                            /\ call.width = width
                            /\ call.height = height,
                 result |-> "ok" ]
    /\ UNCHANGED << pipelines, static_uniform_buffer, frame_uniforms >>

\* `again` tells that the call before this one was resize with the same
\* arguments.
Resize(width, height) ==
    LET config == resize_config(surface_config, width, height) IN
    /\ surface_config' = config
    /\ depth_texture_view' = resize_depth(config)
    /\ gbuffer_albedo' =
         create_render_texture_view(width, height, "Rgba8Unorm", "GBuffer Albedo")
    /\ gbuffer_normal' =
         create_render_texture_view(width, height, "Rgba8Unorm", "GBuffer Normal")
    /\ gbuffer_linear_z' =
         create_render_texture_view(width, height, "R16Uint", "GBuffer LinearZ")
    /\ call' = [ op     |-> "resize",
                 width  |-> width,
                 height |-> height,
                 again  |-> /\ call.op = "resize"
                            /\ call.width = width
                            /\ call.height = height,
                 result |-> "ok" ]
    /\ UNCHANGED << pipelines, scene_state, frame_uniforms >>

-----------------------------------------------------------------------------
(* render *)

\* A slice of n floats, all equal to v.
Slice(n, v) == [i \in 1..n |-> v]

\* The slices render is called with: well formed, one short, one long.
VpInputs ==
    { Slice(MatrixLen, 1), Slice(MatrixLen, 2),
      Slice(MatrixLen - 1, 1), Slice(MatrixLen + 1, 1) }

PositionInputs ==
    { Slice(VectorLen, 3), Slice(VectorLen - 1, 3), Slice(VectorLen + 1, 3) }

LightDirInputs ==
    { Slice(VectorLen, 7), Slice(VectorLen - 1, 7), Slice(VectorLen + 1, 7) }

AmbientInputs == {2, 3}

PresentTargets == 0..MaxPresentTarget

\* <[f32; n]>::try_from(&[f32]): Ok exactly when the slice has n elements.
try_into(slice, n) ==
    IF Len(slice) = n THEN [ok |-> TRUE, value |-> slice]
                      ELSE [ok |-> FALSE]

\* Conversions that fit the slice to the array: cut when long, zero-padded
\* when short.
per_frame_uniforms_fitting(vp_matrix, view_position) ==
    [ok |-> TRUE,
     value |-> [ vp_matrix |->
                   [i \in 1..MatrixLen |->
                      IF i <= Len(vp_matrix) THEN vp_matrix[i] ELSE 0],
                 camera_position |->
                   [i \in 1..VectorLen |->
                      IF i <= Len(view_position) THEN view_position[i] ELSE 0],
                 padding |-> 0 ]]

\* lines 632-639: expect / unwrap on the two conversions
per_frame_uniforms(vp_matrix, view_position) ==
    LET vp  == try_into(vp_matrix, MatrixLen)
        pos == try_into(view_position, VectorLen)
    IN  IF ~vp.ok \/ ~pos.ok
        THEN [ok |-> FALSE]
        ELSE [ok |-> TRUE,
              value |-> [ vp_matrix       |-> vp.value,
                          camera_position |-> pos.value,
                          padding         |-> 0 ]]

\* A render that left the lighting uniforms as they were.
lighting_uniforms_kept(light_dir, ambient) == lighting_uniform_buffer

\* lines 648-651: unwrap_or([0.5, 0.5, 0.5])
lighting_uniforms(light_dir, ambient) ==
    LET dir == try_into(light_dir, VectorLen) IN
    [ light_dir |-> IF dir.ok THEN dir.value ELSE <<5, 5, 5>>,
      ambient   |-> ambient ]

\* A loop that bound the first record's group for every draw.
draw_commands_first_group(dcs) ==
    [ i \in 1..(2 * Len(dcs)) |->
        IF i % 2 = 1
        THEN [cmd |-> "set_bind_group", index |-> 2,
              group |-> dcs[1].bind_group]
        ELSE [cmd |-> "draw_indexed", first_index |-> 0,
              index_count |-> CubeIndexCount, base_vertex |-> 0,
              first_instance |-> 0, instance_count |-> 1] ]

\* lines 714-717: one bind and one indexed draw per draw-call record
RECURSIVE draw_commands(_)
draw_commands(dcs) ==
    IF dcs = <<>> THEN <<>>
    ELSE << [cmd |-> "set_bind_group", index |-> 2,
             group |-> Head(dcs).bind_group],
            [cmd |-> "draw_indexed", first_index |-> 0,
             index_count |-> CubeIndexCount, base_vertex |-> 0,
             first_instance |-> 0, instance_count |-> 1] >>
         \o draw_commands(Tail(dcs))

color_attachment(name, view) ==
    [ target |-> name, view |-> view, load |-> "Clear",
      clear |-> "BLACK", store |-> "Store" ]

\* lines 671-718: the geometry pass
geometry_pass ==
    [ label |-> "GBuffer Pass",
      color_attachments |->
        << color_attachment("gbuffer_albedo", gbuffer_albedo),
           color_attachment("gbuffer_normal", gbuffer_normal),
           color_attachment("gbuffer_linear_z", gbuffer_linear_z) >>,
      depth_stencil_attachment |->
        << [ target |-> "depth_texture_view", view |-> depth_texture_view,
             load |-> "Clear", clear |-> 10, store |-> "Discard" ] >>,
      commands |->
        << [cmd |-> "set_pipeline", pipeline |-> "render_pipeline"],
           [cmd |-> "set_bind_group", index |-> 0,
            group |-> "static_bind_group"],
           [cmd |-> "set_bind_group", index |-> 1,
            group |-> "per_frame_bind_group"],
           [cmd |-> "set_vertex_buffer", slot |-> 0,
            buffer |-> "vertex_buffer"],
           [cmd |-> "set_index_buffer", buffer |-> "index_buffer",
            format |-> "Uint16"] >>
        \o draw_commands(draw_call_array) ]

texture_entry(binding, name, view) ==
    [ binding |-> binding, kind |-> "TextureView", target |-> name,
      view |-> view ]

sampler_entry(binding) ==
    [ binding |-> binding, kind |-> "Sampler", target |-> "sampler" ]

buffer_entry(binding, name) ==
    [ binding |-> binding, kind |-> "Buffer", target |-> name ]

\* A match whose last arm is the depth view's.
quad_selection_depth_last(present_target) ==
    IF present_target = 2
    THEN [ pipeline |-> "quad_pipeline_uint", layout |-> "quad_layout_uint",
           entry |-> texture_entry(0, "gbuffer_linear_z", gbuffer_linear_z) ]
    ELSE [ pipeline |-> "quad_pipeline_float", layout |-> "quad_layout_float",
           entry |->
             IF present_target = 0
             THEN texture_entry(0, "gbuffer_albedo", gbuffer_albedo)
             ELSE IF present_target = 1
             THEN texture_entry(0, "gbuffer_normal", gbuffer_normal)
             ELSE texture_entry(0, "depth_texture_view", depth_texture_view) ]

\* lines 767-793: the debug modes' (pipeline, layout, view)
quad_selection(present_target) ==
    CASE present_target = 0 ->
           [ pipeline |-> "quad_pipeline_float", layout |-> "quad_layout_float",
             entry |-> texture_entry(0, "gbuffer_albedo", gbuffer_albedo) ]
      [] present_target = 1 ->
           [ pipeline |-> "quad_pipeline_float", layout |-> "quad_layout_float",
             entry |-> texture_entry(0, "gbuffer_normal", gbuffer_normal) ]
      [] present_target = 2 ->
           [ pipeline |-> "quad_pipeline_uint", layout |-> "quad_layout_uint",
             entry |-> texture_entry(0, "gbuffer_linear_z", gbuffer_linear_z) ]
      [] present_target = 3 ->
           [ pipeline |-> "quad_pipeline_float", layout |-> "quad_layout_float",
             entry |-> texture_entry(0, "depth_texture_view",
                                     depth_texture_view) ]
      [] OTHER ->
           [ pipeline |-> "quad_pipeline_float", layout |-> "quad_layout_float",
             entry |-> texture_entry(0, "gbuffer_albedo", gbuffer_albedo) ]

\* lines 739-811: the pipeline and the bind group of the composition pass
composition(present_target) ==
    IF present_target = 4
    THEN [ pipeline |-> "lighting_pipeline",
           layout   |-> "lighting_layout",
           entries  |-> << texture_entry(0, "gbuffer_albedo", gbuffer_albedo),
                           texture_entry(1, "gbuffer_normal", gbuffer_normal),
                           sampler_entry(2),
                           buffer_entry(3, "lighting_uniform_buffer") >> ]
    ELSE LET sel == quad_selection(present_target) IN
         [ pipeline |-> sel.pipeline,
           layout   |-> sel.layout,
           entries  |-> << sel.entry, sampler_entry(1) >> ]

\* A present pass that set a pipeline and a bind group for the named modes
\* only.
present_pass_named_only(present_target) ==
    LET c == composition(present_target) IN
    [ label |-> "Present Pass",
      color_attachments |->
        << [ target |-> "frame_view", load |-> "Clear", clear |-> "BLACK",
             store |-> "Store" ] >>,
      depth_stencil_attachment |-> <<>>,
      commands |->
        (IF present_target <= 4
         THEN << [cmd |-> "set_pipeline", pipeline |-> c.pipeline],
                 [cmd |-> "set_bind_group", index |-> 0,
                  group |-> [layout |-> c.layout, entries |-> c.entries]] >>
         ELSE <<>>)
        \o << [cmd |-> "draw", first_vertex |-> 0, vertex_count |-> 3,
               first_instance |-> 0, instance_count |-> 1] >> ]

\* lines 723-813: the present pass
present_pass(present_target) ==
    LET c == composition(present_target) IN
    [ label |-> "Present Pass",
      color_attachments |->
        << [ target |-> "frame_view", load |-> "Clear", clear |-> "BLACK",
             store |-> "Store" ] >>,
      depth_stencil_attachment |-> <<>>,
      commands |->
        << [cmd |-> "set_pipeline", pipeline |-> c.pipeline],
           [cmd |-> "set_bind_group", index |-> 0,
            group |-> [layout |-> c.layout, entries |-> c.entries]],
           [cmd |-> "draw", first_vertex |-> 0, vertex_count |-> 3,
            first_instance |-> 0, instance_count |-> 1] >> ]

\* lines 632-639: a malformed view-projection or camera slice panics before
\* anything else happens.
RenderRejected(vp_matrix, view_position) ==
    /\ ~per_frame_uniforms(vp_matrix, view_position).ok
    /\ call' = [ op            |-> "render",
                 vp_matrix     |-> vp_matrix,
                 view_position |-> view_position,
                 validated     |-> FALSE,
                 acquired      |-> FALSE,
                 result        |-> "panic",
                 steps         |-> <<>>,
                 encoder       |-> <<>>,
                 submitted     |-> <<>>,
                 presented     |-> 0 ]
    /\ UNCHANGED << pipelines, targets, scene_state, frame_uniforms >>

\* A render that acquired the surface image before it wrote the uniforms
\* and recorded the geometry pass.
steps_acquiring_first ==
    << "get_current_texture",
       "write_buffer per_frame_uniform_buffer",
       "write_buffer lighting_uniform_buffer",
       "pass GBuffer Pass" >>

\* What render has done when it reaches get_current_texture (lines 641-721).
steps_to_acquire ==
    << "write_buffer per_frame_uniform_buffer",
       "write_buffer lighting_uniform_buffer",
       "pass GBuffer Pass",
       "get_current_texture" >>

\* A render that dropped the acquisition error and returned Ok.
RenderSurfaceError_dropped(vp_matrix, view_position, light_dir, ambient) ==
    LET pf == per_frame_uniforms(vp_matrix, view_position) IN
    /\ pf.ok
    /\ per_frame_uniform_buffer' = pf.value
    /\ lighting_uniform_buffer' = lighting_uniforms(light_dir, ambient)
    /\ call' =
         [ op            |-> "render",
           vp_matrix     |-> vp_matrix,
           view_position |-> view_position,
           validated     |-> TRUE,
           acquired      |-> FALSE,
           light_dir     |-> light_dir,
           ambient       |-> ambient,
           result        |-> "ok",
           steps         |-> steps_to_acquire,
           encoder       |-> << geometry_pass >>,
           submitted     |-> <<>>,
           presented     |-> 0 ]
    /\ UNCHANGED << pipelines, targets, scene_state >>

\* lines 641-721, get_current_texture returning Err: the `?` returns the
\* mapped error; the encoder is dropped unsubmitted.  present_target is not
\* read on this path.
RenderSurfaceError(vp_matrix, view_position, light_dir, ambient) ==
    LET pf == per_frame_uniforms(vp_matrix, view_position) IN
    /\ pf.ok
    /\ per_frame_uniform_buffer' = pf.value
    /\ lighting_uniform_buffer' = lighting_uniforms(light_dir, ambient)
    /\ call' =
         [ op            |-> "render",
           vp_matrix     |-> vp_matrix,
           view_position |-> view_position,
           validated     |-> TRUE,
           acquired      |-> FALSE,
           light_dir     |-> light_dir,
           ambient       |-> ambient,
           result        |-> "err",
           steps         |-> steps_to_acquire,
           encoder       |-> << geometry_pass >>,
           submitted     |-> <<>>,
           presented     |-> 0 ]
    /\ UNCHANGED << pipelines, targets, scene_state >>

\* lines 641-818, get_current_texture returning a frame.
Render(vp_matrix, view_position, present_target, light_dir, ambient) ==
    LET pf == per_frame_uniforms(vp_matrix, view_position) IN
    /\ pf.ok
    /\ per_frame_uniform_buffer' = pf.value
    /\ lighting_uniform_buffer' = lighting_uniforms(light_dir, ambient)
    /\ call' =
         [ op             |-> "render",
           vp_matrix      |-> vp_matrix,
           view_position  |-> view_position,
           validated      |-> TRUE,
           acquired       |-> TRUE,
           light_dir      |-> light_dir,
           ambient        |-> ambient,
           present_target |-> present_target,
           result         |-> "ok",
           steps          |-> steps_to_acquire
                              \o << "pass Present Pass", "submit", "present" >>,
           encoder        |-> << geometry_pass, present_pass(present_target) >>,
           submitted      |-> << << "GBuffer Pass", "Present Pass" >> >>,
           presented      |-> 1 ]
    /\ UNCHANGED << pipelines, targets, scene_state >>

-----------------------------------------------------------------------------
(* upload_scene *)

\* A palette of n colors; entry i depends on i, so that a color at the wrong
\* index shows.  Alpha stays below 128 to keep a packed word within TLC's
\* integers.
Color(i) == [ r |-> i % 256, g |-> (3 * i) % 256, b |-> (255 - i) % 256,
              a |-> 1 + (i % 100) ]

Palette(n) == [i \in 1..n |-> Color(i)]

\* Palettes that fit the 256 words (empty, short, full) and one that does not.
FittingPalettes == { Palette(0), Palette(1), Palette(PaletteSize) }

LongPalettes == { Palette(PaletteSize + 1) }

\* Two voxel objects that differ in every field.
ObjectA == [ id |-> "a", dims |-> <<1, 1, 1>>, voxels |-> <<0>>,
             model_matrix |-> "Ma", inv_model_matrix |-> "Ma_inv" ]

ObjectB == [ id |-> "b", dims |-> <<2, 1, 1>>, voxels |-> <<0, 1>>,
             model_matrix |-> "Mb", inv_model_matrix |-> "Mb_inv" ]

\* An object whose voxels are one byte more than its grid holds.
ObjectLong == [ id |-> "long", dims |-> <<1, 1, 1>>, voxels |-> <<0, 1>>,
                model_matrix |-> "Ml", inv_model_matrix |-> "Ml_inv" ]

Objects == { ObjectA, ObjectB }

ObjectLists == UNION { [1..n -> Objects] : n \in 0..MaxObjects }

\* utils::pack_rgba: the four channels packed into one 32-bit word.
pack_rgba(color) ==
    color.r + 256 * color.g + 65536 * color.b + 16777216 * color.a

\* The array a loop of the code's shape would leave if it kept the words of
\* the array already on the device instead of starting from zeros.
pack_palette_over_previous(palette) ==
    IF Len(palette) > PaletteSize
    THEN [ok |-> FALSE]
    ELSE [ok |-> TRUE,
          value |-> [i \in 1..PaletteSize |->
                       IF i <= Len(palette) THEN pack_rgba(palette[i])
                                            ELSE static_uniform_buffer[i]]]

\* lines 837-840: zero-filled array, entry i overwritten for every palette
\* entry; indexing past the array panics.
pack_palette(palette) ==
    IF Len(palette) > PaletteSize
    THEN [ok |-> FALSE]
    ELSE [ok |-> TRUE,
          value |-> [i \in 1..PaletteSize |->
                       IF i <= Len(palette) THEN pack_rgba(palette[i]) ELSE 0]]

\* pack_palette of every palette the specifications draw.
Packed == [p \in FittingPalettes \cup LongPalettes |-> pack_palette(p)]

\* The resources an upload creates are new: `generation` tells them from the
\* resources of the records the renderer holds when the upload starts.
new_generation ==
    IF draw_call_array = <<>> THEN 0 ELSE 1 - draw_call_array[1].generation

\* lines 851-923: the record built for one object.
draw_call_data(obj, generation) ==
    [ generation |-> generation,
      texture    |-> [ label  |-> <<"object", obj.id>>,
                       size   |-> obj.dims,
                       format |-> "R8Uint",
                       usage  |-> {TEXTURE_BINDING, "COPY_DST"},
                       data   |-> obj.voxels ],
      sampler    |-> "default",
      bind_group |-> [ layout     |-> "per_draw_bind_group_layout",
                       generation |-> generation,
                       texture    |-> <<"object", obj.id>>,
                       uniform    |-> [ model_matrix |-> obj.model_matrix,
                                        inverse_model_matrix |->
                                          obj.inv_model_matrix ] ] ]

\* lines 849-924: the loop that fills the local draw_call_array.  The device
\* may fail to create the resources of object `fails_at` (0: of none).  The
\* loop tests no result of a creation call, so the one way a failed creation
\* fails the call is the panic of wgpu's uncaptured-error handler, inside the
\* iteration and before its push.  `built` is the local vector when the loop
\* ends, `read` the number of objects visited.
RECURSIVE build_draw_calls(_, _, _, _)
build_draw_calls(objects, fails_at, built, read) ==
    IF read = Len(objects)
    THEN [ok |-> TRUE, built |-> built, read |-> read]
    ELSE IF read + 1 = fails_at
    THEN [ok |-> FALSE, built |-> built, read |-> read + 1]
    ELSE build_draw_calls(objects, fails_at,
                          Append(built,
                                 draw_call_data(objects[read + 1],
                                                new_generation)),
                          read + 1)

\* A loop that pushed onto the renderer's vector would leave the records
\* built so far behind the old ones.
abandon_in_place(old, built) == old \o built

\* lines 849, 928: the loop pushes onto a local vector; a call that ends
\* inside the loop drops it and never reaches the assignment.
abandon(old, built) == old

\* An assignment that extended the renderer's vector.
install_appending(old, built) == old \o built

\* line 928: the built vector replaces the renderer's.
install(old, built) == built

\* What the renderer held when an upload_scene call started: the number of
\* draw-call records and the last word of the static uniform array.
prior ==
    [ records   |-> Len(draw_call_array),
      last_word |-> static_uniform_buffer[PaletteSize] ]

\* line 834: serde_wasm_bindgen::from_value fails on a value that is no Scene;
\* the `?` returns the error.
UploadMalformed ==
    /\ call' = [ op |-> "upload_scene", result |-> "err",
                 stage |-> "from_value", palette |-> <<>>, objects |-> <<>>,
                 failed_at |-> 0, prior |-> prior ]
    /\ UNCHANGED << pipelines, targets, scene_state, frame_uniforms >>

\* lines 837-840 with a palette of more than 256 entries.
UploadPaletteOverflow(palette) ==
    /\ ~Packed[palette].ok
    /\ call' = [ op |-> "upload_scene", result |-> "panic",
                 stage |-> "palette", palette |-> palette, objects |-> <<>>,
                 failed_at |-> 0, prior |-> prior ]
    /\ UNCHANGED << pipelines, targets, scene_state, frame_uniforms >>

\* lines 836-930.  `objects` of the call record are the objects the loop
\* visited.
UploadScene(palette, objects, fails_at) ==
    LET packed == Packed[palette]
        loop   == build_draw_calls(objects, fails_at, <<>>, 0)
    IN
    /\ packed.ok
    /\ static_uniform_buffer' = packed.value
    /\ draw_call_array' =
         IF loop.ok THEN install(draw_call_array, loop.built)
                    ELSE abandon(draw_call_array, loop.built)
    /\ call' = [ op |-> "upload_scene",
                 result |-> IF loop.ok THEN "ok" ELSE "panic",
                 stage |-> IF loop.ok THEN "done" ELSE "objects",
                 palette |-> palette,
                 objects |-> SubSeq(objects, 1, loop.read),
                 failed_at |-> fails_at,
                 prior |-> prior ]
    /\ UNCHANGED << pipelines, targets, frame_uniforms >>

-----------------------------------------------------------------------------
(* Specifications.  Every specification interleaves the three entry points  *)
(* in any order; they differ in the inputs they draw.                       *)

ResizeStep(sizes) ==
    \E width \in sizes, height \in sizes : Resize(width, height)

RenderStep(vps, positions, present_targets, light_dirs, ambients) ==
    \/ \E vp_matrix \in vps, view_position \in positions :
         RenderRejected(vp_matrix, view_position)
    \/ \E vp_matrix \in vps, view_position \in positions,
          light_dir \in light_dirs, ambient \in ambients :
         RenderSurfaceError(vp_matrix, view_position, light_dir, ambient)
    \/ \E vp_matrix \in vps, view_position \in positions,
          present_target \in present_targets, light_dir \in light_dirs,
          ambient \in ambients :
         Render(vp_matrix, view_position, present_target, light_dir, ambient)

UploadStep(fitting, long, lists) ==
    \/ UploadMalformed
    \/ \E palette \in long : UploadPaletteOverflow(palette)
    \/ \E palette \in fitting, objects \in lists :
         \E fails_at \in 0..Len(objects) :
           UploadScene(palette, objects, fails_at)

\* The scenes and the frames of the specification that draws the other
\* entry point's inputs in full.
FewObjectLists == { <<>>, <<ObjectA, ObjectB>> }

FewVps == { Slice(MatrixLen, 1), Slice(MatrixLen - 1, 1) }

FewPositions == { Slice(VectorLen, 3) }

FewPresentTargets == { 0, 4 }

FewLightDirs == { Slice(VectorLen, 7) }

FewAmbients == { 2 }

FewSizes == { 1 }

\* Frames and sizes in full.
Init == InitOn(Dims)

Next ==
    \/ ResizeStep(Dims)
    \/ RenderStep(VpInputs, PositionInputs, PresentTargets, LightDirInputs,
                  AmbientInputs)
    \/ UploadStep({Palette(1)}, LongPalettes, FewObjectLists)

Spec == Init /\ [][Next]_vars

\* Scenes in full.
SceneInit == InitOn(FewSizes)

NextScene ==
    \/ ResizeStep(FewSizes)
    \/ RenderStep(FewVps, FewPositions, FewPresentTargets, FewLightDirs,
                  FewAmbients)
    \/ UploadStep({Palette(1)}, LongPalettes, ObjectLists)

SceneSpec == SceneInit /\ [][NextScene]_vars

\* Palettes in full.
PaletteInit == InitOn(FewSizes)

NextPalette ==
    \/ ResizeStep(FewSizes)
    \/ RenderStep(FewVps, FewPositions, FewPresentTargets, FewLightDirs,
                  FewAmbients)
    \/ UploadStep(FittingPalettes, LongPalettes, FewObjectLists)

PaletteSpec == PaletteInit /\ [][NextPalette]_vars

\* Scenes that hold an object of mismatched voxel length.
MismatchedObjectLists ==
    { <<ObjectLong>>, <<ObjectA, ObjectLong>>, <<ObjectLong, ObjectB>> }

VoxelInit == InitOn(FewSizes)

NextVoxel ==
    \/ ResizeStep(FewSizes)
    \/ RenderStep(FewVps, FewPositions, FewPresentTargets, FewLightDirs,
                  FewAmbients)
    \/ UploadStep({Palette(1)}, LongPalettes,
                  FewObjectLists \cup MismatchedObjectLists)

VoxelSpec == VoxelInit /\ [][NextVoxel]_vars

\* Initialization in full: no Renderer exists until Renderer::new returns
\* one; the caller may call it again after a failure.
NoRendererInit ==
    /\ NoRenderer
    /\ call = [op |-> "none", result |-> "none"]

NewStep(sizes) ==
    \/ \E stage \in {"create_surface", "request_adapter", "request_device"} :
         NewError(stage)
    \/ \E formats \in FormatLists : NewNoFormat(formats)
    \/ \E canvas_width \in sizes, canvas_height \in sizes,
          formats \in FormatLists :
         New(canvas_width, canvas_height, formats)

NextNew ==
    \/ NewStep(Dims)
    \/ ~NoRenderer /\ ResizeStep(Dims)
    \/ ~NoRenderer /\ RenderStep(FewVps, FewPositions, FewPresentTargets,
                                 FewLightDirs, FewAmbients)
    \/ ~NoRenderer /\ UploadStep({Palette(1)}, LongPalettes, FewObjectLists)

NewSpec == NoRendererInit /\ [][NextNew]_vars

-----------------------------------------------------------------------------
(* Shorthands of the properties below. *)

IsUpload == call.op = "upload_scene"

IsRender == call.op = "render"

\* All records the renderer holds were created by one upload.
OneGeneration(dcs) ==
    \A i, j \in 1..Len(dcs) : dcs[i].generation = dcs[j].generation

\* The static uniform array holds exactly `palette`: entry i packed at index
\* i, zero from the palette's length on.
HoldsPalette(buffer, palette) ==
    /\ Len(buffer) = PaletteSize
    /\ \A i \in 1..PaletteSize :
         buffer[i] = IF i <= Len(palette) THEN pack_rgba(palette[i]) ELSE 0

\* Record `dc` was built from object `obj`.
BuiltFrom(dc, obj) ==
    /\ dc.texture.size = obj.dims
    /\ dc.texture.data = obj.voxels
    /\ dc.texture.label = <<"object", obj.id>>
    /\ dc.bind_group.texture = dc.texture.label
    /\ dc.bind_group.uniform.model_matrix = obj.model_matrix
    /\ dc.bind_group.uniform.inverse_model_matrix = obj.inv_model_matrix

-----------------------------------------------------------------------------
(* C1: upload_scene is fail-atomic for the draw-call collection: a call in  *)
(* which resource creation fails for some object (first, middle or last)   *)
(* leaves the collection as it was before the call; the collection never   *)
(* mixes records of two uploads, nor does the geometry pass of any render  *)
(* bind groups of two uploads.                                             *)

\* The generations of the per-draw bind groups a geometry pass bound.
BoundGenerations(pass) ==
    { pass.commands[i].group.generation :
        i \in { k \in 1..Len(pass.commands) :
                  /\ pass.commands[k].cmd = "set_bind_group"
                  /\ pass.commands[k].index = 2 } }

C1_UploadFailAtomic ==
    /\ [](OneGeneration(draw_call_array))
    /\ []((IsRender /\ call.validated) =>
            Cardinality(BoundGenerations(call.encoder[1])) <= 1)
    /\ [][ (call'.op = "upload_scene" /\ call'.failed_at > 0) =>
             /\ call'.result = "panic"
             /\ draw_call_array' = draw_call_array ]_vars

\* A failure at the last object of a scene of several, over a non-empty
\* collection.
C1_Witness ==
    /\ IsUpload /\ call.result = "panic"
    /\ call.failed_at = Len(call.objects)
    /\ call.failed_at > 1
    /\ call.prior.records > 0
    /\ Len(draw_call_array) = call.prior.records

-----------------------------------------------------------------------------
(* C2: after a successful upload_scene of N objects the renderer holds      *)
(* exactly N draw-call records, the i-th built from the i-th object, all of *)
(* them created by this upload: none of the records held before remains.    *)
C2_UploadReplaces ==
    /\ [](IsUpload /\ call.result = "ok" =>
            /\ Len(draw_call_array) = Len(call.objects)
            /\ \A i \in 1..Len(call.objects) :
                 BuiltFrom(draw_call_array[i], call.objects[i]))
    /\ [][ (call'.op = "upload_scene" /\ call'.result = "ok") =>
             \A i \in 1..Len(draw_call_array'), j \in 1..Len(draw_call_array) :
               draw_call_array'[i].generation # draw_call_array[j].generation
         ]_vars

\* A two-object scene of distinct objects uploaded over a non-empty collection.
C2_Witness ==
    /\ IsUpload /\ call.result = "ok"
    /\ call.objects = <<ObjectB, ObjectA>>
    /\ call.prior.records > 0
    /\ Len(draw_call_array) = 2

-----------------------------------------------------------------------------
(* C3: for a palette of length L <= 256, after upload_scene the static      *)
(* uniform array holds the packed value of palette entry i at every index   *)
(* i < L and zero at every index i >= L, whatever it held before.           *)
C3_PalettePacked ==
    (IsUpload /\ call.stage # "from_value" /\ Len(call.palette) <= PaletteSize)
      => HoldsPalette(static_uniform_buffer, call.palette)

\* A one-entry palette uploaded when the array's last word was set by a full
\* palette.
C3_Witness ==
    /\ IsUpload /\ call.stage = "done"
    /\ Len(call.palette) = 1
    /\ call.prior.last_word # 0
    /\ static_uniform_buffer[1] # 0

-----------------------------------------------------------------------------
(* C6: upload_scene given a palette of more than 256 entries ignores the    *)
(* excess: it completes successfully, the static uniform array holds the    *)
(* first 256 entries, and the scene's draw-call records are installed.      *)
(* Stated as claimed; the code panics on entry 257.                         *)
C6_LongPaletteTruncated ==
    (IsUpload /\ Len(call.palette) > PaletteSize) =>
      /\ call.result = "ok"
      /\ HoldsPalette(static_uniform_buffer,
                      SubSeq(call.palette, 1, PaletteSize))
      /\ Len(draw_call_array) = Len(call.objects)

\* The call panicked at the palette, before any write.
C6_Witness ==
    /\ IsUpload /\ Len(call.palette) = PaletteSize + 1
    /\ call.result = "panic" /\ call.stage = "palette"
    /\ static_uniform_buffer[PaletteSize] = call.prior.last_word

-----------------------------------------------------------------------------
(* C7: a failed upload_scene preserves the static palette uniform: when     *)
(* resource creation fails for an object, the array holds what it held      *)
(* before the call.  Stated as claimed; the code writes the new palette      *)
(* before it creates the first object's resources.                          *)
C7_FailedUploadKeepsPalette ==
    [][ (call'.op = "upload_scene" /\ call'.failed_at > 0)
          => static_uniform_buffer' = static_uniform_buffer ]_vars

\* A failed upload of a one-entry palette after which the last word of the
\* array, set by a full palette before the call, is zero.
C7_Witness ==
    /\ IsUpload /\ call.failed_at > 0 /\ call.result = "panic"
    /\ Len(call.palette) = 1
    /\ call.prior.last_word # 0
    /\ static_uniform_buffer[PaletteSize] = 0

-----------------------------------------------------------------------------
(* C4: render selects the composition pipeline and the sampled target from  *)
(* the present mode: 0 -> float debug pipeline on albedo, 1 -> float debug  *)
(* pipeline on normal, 2 -> integer debug pipeline on linear depth, 3 ->    *)
(* float debug pipeline on the depth-stencil target, 4 -> lighting pipeline *)
(* on albedo, normal and the lighting uniforms, any other value -> float    *)
(* debug pipeline on albedo, without an error.                              *)

\* The pipeline the present pass of the last render set, the layout of the
\* bind group it bound, and the resources of that group in binding order.
PresentPipeline == call.encoder[2].commands[1].pipeline

PresentLayout == call.encoder[2].commands[2].group.layout

PresentResources ==
    LET entries == call.encoder[2].commands[2].group.entries IN
    [i \in 1..Len(entries) |-> entries[i].target]

\* A debug view: one pipeline, its layout, one texture and the sampler.
DebugView(pipeline, layout, target) ==
    /\ PresentPipeline = pipeline
    /\ PresentLayout = layout
    /\ PresentResources = <<target, "sampler">>

\* A texture entry of the present pass's bind group binds the target's
\* current view.
BindsCurrentViews ==
    \A e \in { call.encoder[2].commands[2].group.entries[i] :
                 i \in 1..Len(call.encoder[2].commands[2].group.entries) } :
      e.kind = "TextureView" =>
        e.view = CASE e.target = "gbuffer_albedo" -> gbuffer_albedo
                   [] e.target = "gbuffer_normal" -> gbuffer_normal
                   [] e.target = "gbuffer_linear_z" -> gbuffer_linear_z
                   [] e.target = "depth_texture_view" -> depth_texture_view

C4_PresentModeSelection ==
    (IsRender /\ call.validated /\ call.acquired) =>
      /\ call.result = "ok"
      /\ BindsCurrentViews
      /\ LET mode == call.present_target IN
         /\ mode = 0 =>
              DebugView("quad_pipeline_float", "quad_layout_float",
                        "gbuffer_albedo")
         /\ mode = 1 =>
              DebugView("quad_pipeline_float", "quad_layout_float",
                        "gbuffer_normal")
         /\ mode = 2 =>
              DebugView("quad_pipeline_uint", "quad_layout_uint",
                        "gbuffer_linear_z")
         /\ mode = 3 =>
              DebugView("quad_pipeline_float", "quad_layout_float",
                        "depth_texture_view")
         /\ mode = 4 =>
              /\ PresentPipeline = "lighting_pipeline"
              /\ PresentLayout = "lighting_layout"
              /\ PresentResources = << "gbuffer_albedo", "gbuffer_normal",
                                       "sampler", "lighting_uniform_buffer" >>
         /\ mode > 4 =>
              DebugView("quad_pipeline_float", "quad_layout_float",
                        "gbuffer_albedo")

\* A render of an unrecognized mode that presented the albedo debug view.
C4_Witness ==
    /\ IsRender /\ call.validated /\ call.acquired
    /\ call.present_target > 4
    /\ call.result = "ok"
    /\ call.presented = 1
    /\ PresentResources = <<"gbuffer_albedo", "sampler">>

-----------------------------------------------------------------------------
(* C5: resize is idempotent on target state: a resize(W, H) that follows a  *)
(* resize(W, H) leaves the surface configuration, the three G-buffer        *)
(* targets and the depth target as the first call left them, of size (W, H) *)
(* and of their formats.                                                    *)

SizedTo(view, width, height) == view.width = width /\ view.height = height

C5_ResizeIdempotent ==
    [][ (call'.op = "resize" /\ call'.again) =>
          /\ targets' = targets
          /\ surface_config' = [width |-> call'.width, height |-> call'.height]
          /\ \A view \in { depth_texture_view', gbuffer_albedo',
                           gbuffer_normal', gbuffer_linear_z' } :
               SizedTo(view, call'.width, call'.height)
          /\ gbuffer_albedo'.format = "Rgba8Unorm"
          /\ gbuffer_normal'.format = "Rgba8Unorm"
          /\ gbuffer_linear_z'.format = "R16Uint"
          /\ depth_texture_view'.format = "Depth24PlusStencil8"
      ]_vars

\* The second of two equal resize calls, to a size other than 1 x 1.
C5_Witness ==
    /\ call.op = "resize" /\ call.again
    /\ call.width = MaxDim /\ call.height = 1
    /\ SizedTo(depth_texture_view, MaxDim, 1)
    /\ SizedTo(gbuffer_linear_z, MaxDim, 1)

-----------------------------------------------------------------------------
(* C8: render given a view-projection slice of a length other than 16 or a  *)
(* camera-position slice of a length other than 3 fails loudly (it panics), *)
(* neither truncating nor padding, before any uniform buffer is written,    *)
(* any pass is recorded, anything is submitted or any frame is presented.   *)

Malformed(c) ==
    Len(c.vp_matrix) # MatrixLen \/ Len(c.view_position) # VectorLen

C8_MalformedSlicesRejected ==
    /\ []((IsRender /\ Malformed(call)) =>
            /\ call.result = "panic"
            /\ call.steps = <<>>
            /\ call.encoder = <<>>
            /\ call.submitted = <<>>
            /\ call.presented = 0)
    /\ []((IsRender /\ call.validated) =>
            /\ per_frame_uniform_buffer.vp_matrix = call.vp_matrix
            /\ per_frame_uniform_buffer.camera_position = call.view_position)
    /\ [][ (call'.op = "render" /\ Malformed(call')) =>
             UNCHANGED << pipelines, frame_uniforms, targets, scene_state >> ]_vars

\* A rejected call with a long matrix, made after a frame was rendered.
C8_Witness ==
    /\ IsRender /\ call.result = "panic"
    /\ Len(call.vp_matrix) > MatrixLen
    /\ Len(call.view_position) = VectorLen
    /\ per_frame_uniform_buffer.vp_matrix = Slice(MatrixLen, 2)

-----------------------------------------------------------------------------
(* C9: render given a light-direction vector of a length other than 3 fails *)
(* loudly; it never coerces the vector to another value and renders with    *)
(* it.  Stated as claimed; the code falls back to (0.5, 0.5, 0.5).          *)
C9_MalformedLightRejected ==
    (IsRender /\ call.validated /\ Len(call.light_dir) # VectorLen) =>
      /\ call.result = "panic"
      /\ call.steps = <<>>

\* A frame presented with the fallback direction in place of a short vector.
C9_Witness ==
    /\ IsRender /\ call.validated /\ call.acquired
    /\ Len(call.light_dir) < VectorLen
    /\ call.result = "ok" /\ call.presented = 1
    /\ lighting_uniform_buffer.light_dir = <<5, 5, 5>>

-----------------------------------------------------------------------------
(* C10: when acquiring the surface image fails, render returns a render     *)
(* error and that call submits no command batch and presents no frame; a    *)
(* render that passed input validation and acquired its image always        *)
(* submits, then presents; and after a failed acquisition a later render    *)
(* can succeed.                                                             *)

\* render ends by submitting one batch and then presenting.
SubmitsThenPresents(c) ==
    /\ Len(c.submitted) = 1
    /\ c.presented = 1
    /\ Len(c.steps) >= 2
    /\ c.steps[Len(c.steps) - 1] = "submit"
    /\ c.steps[Len(c.steps)] = "present"

C10_AcquireFailure ==
    /\ (IsRender /\ call.validated /\ ~call.acquired) =>
         /\ call.result = "err"
         /\ call.submitted = <<>>
         /\ call.presented = 0
         /\ \A i \in 1..Len(call.steps) :
              call.steps[i] \notin {"submit", "present"}
         /\ ENABLED Render(Slice(MatrixLen, 1), Slice(VectorLen, 3), 0,
                           Slice(VectorLen, 7), 2)
    /\ (IsRender /\ call.validated /\ call.acquired) =>
         /\ call.result = "ok"
         /\ SubmitsThenPresents(call)
    /\ (IsRender /\ call.validated /\ ~SubmitsThenPresents(call)) =>
         ~call.acquired

\* A render whose acquisition failed, after the geometry pass was recorded.
C10_Witness ==
    /\ IsRender /\ call.validated /\ ~call.acquired
    /\ call.result = "err"
    /\ call.steps = steps_to_acquire
    /\ Len(call.encoder) = 1
    /\ per_frame_uniform_buffer.vp_matrix = call.vp_matrix

-----------------------------------------------------------------------------
(* C11: each initialization failure (no compatible adapter, device request  *)
(* rejected, no supported surface format) makes Renderer::new return an     *)
(* error value and construct no Renderer; none aborts by another route.     *)
(* Stated as claimed; with no supported format the code panics on unwrap.   *)
C11_InitFailuresReturnError ==
    (call.op = "new" /\ call.result # "ok") =>
      /\ call.result = "err"
      /\ NoRenderer

\* Initialization ended at the surface format by a panic.
C11_Witness ==
    /\ call.op = "new"
    /\ call.result = "panic"
    /\ call.stage = "surface_format"
    /\ NoRenderer

-----------------------------------------------------------------------------
(* C12: upload_scene given an object whose voxel byte count differs from    *)
(* nx*ny*nz is rejected: the call does not return Ok, and the renderer      *)
(* never holds a draw-call record built from such an object.  Stated as     *)
(* claimed; the code compares the two nowhere.                              *)

VoxelCount(dims) == dims[1] * dims[2] * dims[3]

C12_VoxelLengthRejected ==
    /\ (IsUpload /\ \E i \in 1..Len(call.objects) :
                      Len(call.objects[i].voxels)
                        # VoxelCount(call.objects[i].dims))
         => call.result # "ok"
    /\ \A i \in 1..Len(draw_call_array) :
         Len(draw_call_array[i].texture.data)
           = VoxelCount(draw_call_array[i].texture.size)

\* An upload that returned Ok and left a record of the long object.
C12_Witness ==
    /\ IsUpload /\ call.result = "ok"
    /\ call.objects = <<ObjectA, ObjectLong>>
    /\ Len(draw_call_array) = 2
    /\ BuiltFrom(draw_call_array[2], ObjectLong)

-----------------------------------------------------------------------------
(* C13: every successful render performs its steps in this order: the       *)
(* per-frame and the lighting uniform writes, the geometry pass, the        *)
(* acquisition of the surface image, the composition pass, one submit of a  *)
(* single batch holding both passes (geometry first), one present.          *)
C13_RenderStepOrder ==
    (IsRender /\ call.result = "ok") =>
      /\ call.steps = << "write_buffer per_frame_uniform_buffer",
                         "write_buffer lighting_uniform_buffer",
                         "pass GBuffer Pass",
                         "get_current_texture",
                         "pass Present Pass",
                         "submit",
                         "present" >>
      /\ [i \in 1..Len(call.encoder) |-> call.encoder[i].label]
           = << "GBuffer Pass", "Present Pass" >>
      /\ call.submitted = << << "GBuffer Pass", "Present Pass" >> >>
      /\ call.presented = 1

\* A successful render of the lit mode over a non-empty collection.
C13_Witness ==
    /\ IsRender /\ call.result = "ok"
    /\ call.present_target = 4
    /\ Len(draw_call_array) > 0
    /\ Len(call.steps) = 7
    /\ call.steps[6] = "submit" /\ call.steps[7] = "present"

-----------------------------------------------------------------------------
(* C14: in the geometry pass of every render the static group is bound at   *)
(* index 0 and the per-frame group at index 1, once each; for K draw-call   *)
(* records held, exactly K indexed draws are issued in collection order,    *)
(* each preceded by the bind of its record's group at index 2, each of the  *)
(* 36 cube indices and one instance; with K = 0 the pass still clears its   *)
(* targets and draws nothing.                                               *)

\* The positions of the pass's binds at `index`, and of its indexed draws.
BindsAt(pass, index) ==
    { k \in 1..Len(pass.commands) :
        /\ pass.commands[k].cmd = "set_bind_group"
        /\ pass.commands[k].index = index }

DrawsOf(pass) ==
    { k \in 1..Len(pass.commands) : pass.commands[k].cmd = "draw_indexed" }

ClearsTargets(pass) ==
    /\ Len(pass.color_attachments) = 3
    /\ \A i \in 1..3 : pass.color_attachments[i].load = "Clear"
    /\ Len(pass.depth_stencil_attachment) = 1
    /\ pass.depth_stencil_attachment[1].load = "Clear"

C14_GeometryPassDraws ==
    (IsRender /\ call.validated) =>
      LET pass == call.encoder[1]
          K    == Len(draw_call_array)
      IN
      /\ pass.label = "GBuffer Pass"
      /\ ClearsTargets(pass)
      /\ \E k \in 1..Len(pass.commands) :
           /\ BindsAt(pass, 0) = {k}
           /\ pass.commands[k].group = "static_bind_group"
      /\ \E k \in 1..Len(pass.commands) :
           /\ BindsAt(pass, 1) = {k}
           /\ pass.commands[k].group = "per_frame_bind_group"
      /\ Cardinality(DrawsOf(pass)) = K
      /\ Cardinality(BindsAt(pass, 2)) = K
      /\ Len(pass.commands) = 5 + 2 * K
      /\ \A i \in 1..K :
           LET bind == pass.commands[4 + 2 * i]
               draw == pass.commands[5 + 2 * i]
           IN
           /\ bind.cmd = "set_bind_group" /\ bind.index = 2
           /\ bind.group = draw_call_array[i].bind_group
           /\ draw.cmd = "draw_indexed"
           /\ draw.first_index = 0 /\ draw.index_count = 36
           /\ draw.first_instance = 0 /\ draw.instance_count = 1

\* A render over three records, the second of another object than the
\* first.
C14_Witness ==
    /\ IsRender /\ call.validated /\ call.result = "ok"
    /\ Len(draw_call_array) = 3
    /\ draw_call_array[1].bind_group # draw_call_array[2].bind_group
    /\ Cardinality(DrawsOf(call.encoder[1])) = 3

-----------------------------------------------------------------------------
(* C15: every successful render runs exactly one composition pass; the pass *)
(* sets exactly one pipeline and one bind group, at index 0, and issues     *)
(* exactly one draw, non-indexed, of 3 vertices and one instance, whatever  *)
(* the present mode, unrecognized values included.                          *)

CommandsOf(pass, cmd) ==
    { k \in 1..Len(pass.commands) : pass.commands[k].cmd = cmd }

C15_OneCompositionPass ==
    (IsRender /\ call.result = "ok") =>
      /\ Cardinality({ i \in 1..Len(call.encoder) :
                         call.encoder[i].label = "Present Pass" }) = 1
      /\ Len(call.encoder) = 2
      /\ LET pass == call.encoder[2] IN
         /\ pass.label = "Present Pass"
         /\ Cardinality(CommandsOf(pass, "set_pipeline")) = 1
         /\ Cardinality(CommandsOf(pass, "set_bind_group")) = 1
         /\ \A k \in CommandsOf(pass, "set_bind_group") :
              pass.commands[k].index = 0
         /\ CommandsOf(pass, "draw_indexed") = {}
         /\ Cardinality(CommandsOf(pass, "draw")) = 1
         /\ \A k \in CommandsOf(pass, "draw") :
              /\ pass.commands[k].first_vertex = 0
              /\ pass.commands[k].vertex_count = 3
              /\ pass.commands[k].instance_count = 1
              /\ k = Len(pass.commands)

\* A successful render of an unrecognized mode whose present pass holds the
\* three commands.
C15_Witness ==
    /\ IsRender /\ call.result = "ok"
    /\ call.present_target = MaxPresentTarget
    /\ Len(call.encoder[2].commands) = 3
    /\ call.encoder[2].commands[3].cmd = "draw"

-----------------------------------------------------------------------------
(* C16: every render with well-formed inputs rewrites the per-frame         *)
(* uniforms to the call's view-projection and camera position and the       *)
(* lighting uniforms to the call's light direction and ambient, whatever    *)
(* the present mode; no other call writes them, so after any sequence of    *)
(* calls the two buffers hold the arguments of the most recent render.      *)
C16_UniformsRewritten ==
    /\ []((IsRender /\ call.validated /\ Len(call.light_dir) = VectorLen) =>
            /\ per_frame_uniform_buffer.vp_matrix = call.vp_matrix
            /\ per_frame_uniform_buffer.camera_position = call.view_position
            /\ lighting_uniform_buffer.light_dir = call.light_dir
            /\ lighting_uniform_buffer.ambient = call.ambient)
    /\ [][ (call'.op # "render" \/ ~call'.validated)
             => UNCHANGED frame_uniforms ]_vars

\* A render of a debug mode that replaced the light direction, the ambient
\* and the matrix of an earlier render.
C16_Witness ==
    /\ IsRender /\ call.result = "ok"
    /\ call.present_target = 1
    /\ call.vp_matrix = Slice(MatrixLen, 2)
    /\ call.ambient = 3
    /\ lighting_uniform_buffer = [light_dir |-> Slice(VectorLen, 7),
                                  ambient |-> 3]
    /\ per_frame_uniform_buffer.vp_matrix = Slice(MatrixLen, 2)

-----------------------------------------------------------------------------
(* C17: scene state changes only through upload_scene: render, successful   *)
(* or failing, and resize leave the draw-call collection (the per-draw      *)
(* uniforms with it) and the static palette uniform as they were; resize    *)
(* also leaves the per-frame and the lighting uniforms and every pipeline   *)
(* and layout as they were.                                                 *)
C17_SceneChangesOnlyByUpload ==
    /\ [][ call'.op # "upload_scene" => UNCHANGED scene_state ]_vars
    /\ [][ call'.op = "resize" =>
             UNCHANGED << frame_uniforms, pipelines >> ]_vars
    /\ [][ call'.op = "render" => UNCHANGED pipelines ]_vars

\* A resize to another size made while the renderer holds two records and
\* an uploaded palette.
C17_Witness ==
    /\ call.op = "resize" /\ ~call.again
    /\ call.width = MaxDim
    /\ Len(draw_call_array) = 2
    /\ BuiltFrom(draw_call_array[2], ObjectB)
    /\ static_uniform_buffer[1] # 0
    /\ per_frame_uniform_buffer.vp_matrix = Slice(MatrixLen, 2)

-----------------------------------------------------------------------------
(* C18: in every render, for every present mode, each target the            *)
(* composition pass binds for sampling was created with texture-binding     *)
(* usage; in particular the depth-stencil target bound in depth-buffer mode, *)
(* after initialization and after any resize.  Stated as claimed; the depth *)
(* target is created as a render attachment only.                           *)

\* The texture views the present pass of the last render bound.
SampledViews ==
    LET entries == call.encoder[2].commands[2].group.entries IN
    { entries[i].view :
        i \in { k \in 1..Len(entries) : entries[k].kind = "TextureView" } }

C18_SampledTargetsBindable ==
    (IsRender /\ call.result = "ok") =>
      \A view \in SampledViews : TEXTURE_BINDING \in view.usage

\* A render of the depth-buffer mode that bound the depth target, of a size
\* other than square, whose usage is render attachment alone.
C18_Witness ==
    /\ IsRender /\ call.result = "ok"
    /\ call.present_target = 3
    /\ SampledViews = {depth_texture_view}
    /\ depth_texture_view.usage = {RENDER_ATTACHMENT}
    /\ depth_texture_view.width # depth_texture_view.height

-----------------------------------------------------------------------------
(* C19: within one render every target the composition pass samples holds   *)
(* what the same frame's geometry pass wrote to it: the geometry pass       *)
(* stores, and does not discard, each of albedo, normal, linear depth and,  *)
(* for depth-buffer mode, the depth target.  Stated as claimed; the depth   *)
(* attachment's store operation is Discard.                                 *)

\* The attachments of a pass, color and depth-stencil.
AttachmentsOf(pass) ==
    { pass.color_attachments[i] : i \in 1..Len(pass.color_attachments) }
      \cup { pass.depth_stencil_attachment[i] :
               i \in 1..Len(pass.depth_stencil_attachment) }

\* The targets the present pass of the last render bound as textures.
SampledTargets ==
    LET entries == call.encoder[2].commands[2].group.entries IN
    { entries[i].target :
        i \in { k \in 1..Len(entries) : entries[k].kind = "TextureView" } }

C19_SampledTargetsStored ==
    (IsRender /\ call.result = "ok") =>
      /\ \A a \in AttachmentsOf(call.encoder[1]) :
           a.target \in {"gbuffer_albedo", "gbuffer_normal",
                         "gbuffer_linear_z"} => a.store = "Store"
      /\ \A name \in SampledTargets :
           \E a \in AttachmentsOf(call.encoder[1]) :
             a.target = name /\ a.store = "Store"

\* A render of the depth-buffer mode: its present pass samples the depth
\* target, which its geometry pass discarded.
C19_Witness ==
    /\ IsRender /\ call.result = "ok"
    /\ call.present_target = 3
    /\ SampledTargets = {"depth_texture_view"}
    /\ call.encoder[1].depth_stencil_attachment[1].target
         = "depth_texture_view"
    /\ call.encoder[1].depth_stencil_attachment[1].store = "Discard"

-----------------------------------------------------------------------------
(* C20: after initialization and after any sequence of resize, render and   *)
(* upload_scene calls the albedo, normal, linear-depth and depth-stencil    *)
(* targets all have the width and height of the surface configuration: the *)
(* canvas size at initialization, else the arguments of the most recent     *)
(* resize; the geometry pass never attaches targets of differing sizes.     *)

SizedAsSurface(view) ==
    SizedTo(view, surface_config.width, surface_config.height)

C20_TargetsSizedAsSurface ==
    /\ [](/\ \A view \in { gbuffer_albedo, gbuffer_normal,
                             gbuffer_linear_z, depth_texture_view } :
               SizedAsSurface(view)
          /\ (call.op \in {"new", "resize"} /\ call.result = "ok") =>
               surface_config = [width |-> call.width,
                                 height |-> call.height]
          /\ (IsRender /\ call.validated) =>
               \A a \in AttachmentsOf(call.encoder[1]) :
                 SizedAsSurface(a.view))
    /\ [][ call'.op \notin {"new", "resize"} =>
             UNCHANGED targets ]_vars

\* A render whose geometry pass attached four targets of the widest size,
\* one pixel high.
C20_Witness ==
    /\ IsRender /\ call.result = "ok"
    /\ surface_config = [width |-> MaxDim, height |-> 1]
    /\ Cardinality(AttachmentsOf(call.encoder[1])) = 4
    /\ \A a \in AttachmentsOf(call.encoder[1]) : SizedTo(a.view, MaxDim, 1)

=============================================================================
